---- MODULE Spec2Model ----
(***************************************************************************)
(* Control plane of src/api/server.js: the Express middleware that sits in *)
(* front of one Ollama engine.  Every HTTP handler is an async function;   *)
(* JavaScript runs it without interruption from one await to the next, so  *)
(* one action of this model is one such segment: the synchronous code that *)
(* follows the arrival of a request, or the answer of the engine to the    *)
(* call the handler is waiting on together with the code that runs until   *)
(* the next await.  An engine call (request, effect in the engine, answer) *)
(* is atomic; calls of different requests interleave freely.               *)
(***************************************************************************)
EXTENDS Integers, Sequences, FiniteSets, TLC

VARIABLES registry, resident, req, analysis, session

vars == <<registry, resident, req, analysis, session>>

(* ---------------------------------------------------------------------- *)
(* Bounds                                                                  *)
(* ---------------------------------------------------------------------- *)

\* number of HTTP requests that arrive, and are handled concurrently
NumRequests == 1

Req == 1..NumRequests

(* ---------------------------------------------------------------------- *)
(* Static configuration                                                    *)
(* ---------------------------------------------------------------------- *)

\* the models the provisioning script pulls into the engine, in the order
\* in which the engine lists them
ModelOrder == <<"llama3.2-vision:11b", "llama3.1:8b", "llama3.2:3b">>

Models == {ModelOrder[i] : i \in 1..Len(ModelOrder)}

\* req.body.model is absent (undefined)
NoModel == "undefined"

ModelInputs == Models \cup {NoModel}

\* AVAILABLE_MODELS as server.js ships it: one vision model
ShippedRegistry == [m \in {"llama3.2-vision:11b"} |-> [supportsImages |-> TRUE]]

\* AVAILABLE_MODELS filled with the three models of the README's table
DocumentedRegistry ==
    [m \in Models |-> [supportsImages |-> (m = "llama3.2-vision:11b")]]

Registries == {ShippedRegistry, DocumentedRegistry}

\* InvalidModel without the lookup in AVAILABLE_MODELS
InvalidModelMissingOnly(m) == m = NoModel

\* !model || !AVAILABLE_MODELS[model]
InvalidModel(m) == m = NoModel \/ m \notin DOMAIN registry

(* ---------------------------------------------------------------------- *)
(* The engine (Ollama), seen through the calls server.js makes             *)
(* ---------------------------------------------------------------------- *)

\* GET /api/ps: response.data.models, the resident models in listing order
PsList(res) == SelectSeq(ModelOrder, LAMBDA m : m \in res)

\* POST /api/generate {model, prompt: "", keep_alive: 0}: the engine unloads
\* the model at once.  The call carries no timeout, so a failure is an
\* answer of the transport or of the engine: the model was not unloaded
EvictEffect(res, m, ok) == IF ok THEN {res \ {m}} ELSE {res}

\* POST /api/generate {model, prompt: ".", num_predict: 1}, and the real
\* chat/generate call: the engine brings the model into memory to answer.
\* These calls carry a timeout, so a call that fails may still have made
\* the engine load the model
LoadEffect(res, m, ok) == IF ok THEN {res \cup {m}} ELSE {res, res \cup {m}}

\* how a chat/generate call to the engine can end, as axios reports it
GenOutcomes == {"ok", "ECONNREFUSED", "HTTP404", "ECONNABORTED", "OTHER"}

\* the effect of a chat/generate call on the resident set: the call loads
\* its model; a refused connection never reached the engine and a model
\* answered with 404 is not loaded; after a timeout or another failure the
\* engine may have loaded the model all the same
CallEffect(res, m, outcome) ==
    CASE outcome = "ok" -> {res \cup {m}}
      [] outcome \in {"ECONNREFUSED", "HTTP404"} -> {res}
      [] OTHER -> {res, res \cup {m}}

(* ---------------------------------------------------------------------- *)
(* Complexity analyzer and parameter selector                              *)
(* ---------------------------------------------------------------------- *)

\* complexityIndicators.length: the elaboration patterns of the analyzer
NumIndicators == 19

\* One message of req.body.messages, by what the handlers read of it:
\*   length        content.length
\*   matches       the indices k of the complexityIndicators whose
\*                 pattern.test(content) is true
\*   questionMarks (content.match(/\?/g) || []).length
\*   images        images.length (0 when the field is absent)
Msg(role, length, matches, questionMarks, images) ==
    [role |-> role, length |-> length, matches |-> matches,
     questionMarks |-> questionMarks, images |-> images]

\* LengthScore with the three ifs chained by else: the bonus no longer
\* cumulates
LengthScoreNotCumulative(length) ==
    IF length > 2000 THEN 3
    ELSE IF length > 1000 THEN 2
    ELSE IF length > 500 THEN 2
    ELSE 0

\* "// Length-based scoring": three independent ifs, so the bonus cumulates
LengthScore(length) ==
    (IF length > 500 THEN 2 ELSE 0)
    + (IF length > 1000 THEN 2 ELSE 0)
    + (IF length > 2000 THEN 3 ELSE 0)

\* complexityIndicators.forEach(pattern => { if (pattern.test(content))
\* score += 3 }), from pattern k on
RECURSIVE IndicatorScore(_, _)
IndicatorScore(matches, k) ==
    IF k > NumIndicators THEN 0
    ELSE (IF k \in matches THEN 3 ELSE 0) + IndicatorScore(matches, k + 1)

\* "// Conversation context length"
ContextScore(n) == (IF n > 5 THEN 1 ELSE 0) + (IF n > 10 THEN 2 ELSE 0)

\* ScoreOf with hasImages taken over the whole history, as the chat
\* handler computes its own flag
ScoreOfAnyImages(messages) ==
    LET lastMessage == messages[Len(messages)]
        hasImages == \E k \in 1..Len(messages) : messages[k].images > 0
    IN LengthScore(lastMessage.length)
       + IndicatorScore(lastMessage.matches, 1)
       + (IF hasImages THEN 2 ELSE 0)
       + (IF lastMessage.questionMarks > 1 THEN 2 ELSE 0)
       + ContextScore(Len(messages))

\* the score analyzeQueryComplexity gives a non-empty history
ScoreOf(messages) ==
    LET lastMessage == messages[Len(messages)]
        hasImages == lastMessage.images > 0
    IN LengthScore(lastMessage.length)
       + IndicatorScore(lastMessage.matches, 1)
       + (IF hasImages THEN 2 ELSE 0)
       + (IF lastMessage.questionMarks > 1 THEN 2 ELSE 0)
       + ContextScore(Len(messages))

\* Classify with "score === 8" for "score >= 8"
ClassifyExactlyEight(score) ==
    IF score = 8 THEN "very_complex"
    ELSE IF score >= 5 THEN "complex"
    ELSE IF score >= 2 THEN "moderate"
    ELSE "simple"

\* the if / else if chain on the score
Classify(score) ==
    IF score >= 8 THEN "very_complex"
    ELSE IF score >= 5 THEN "complex"
    ELSE IF score >= 2 THEN "moderate"
    ELSE "simple"

\* messages[messages.length - 1] is undefined for an empty history, and
\* reading .content of it throws a TypeError
AnalyzerThrows(messages) == Len(messages) = 0

\* analyzeQueryComplexity(messages), for a non-empty history
analyzeQueryComplexity(messages) ==
    [complexity |-> Classify(ScoreOf(messages)), score |-> ScoreOf(messages)]

\* baseParams; the decimals are held in tenths: temperature 0.7 is 7, top_p
\* 0.9 is 9, repeat_penalty 1.1 is 11
baseParams ==
    [temperature |-> 7, top_k |-> 40, top_p |-> 9, num_ctx |-> 4096,
     num_thread |-> 10, low_vram |-> FALSE, use_mlock |-> TRUE,
     use_mmap |-> FALSE, repeat_penalty |-> 11, repeat_last_n |-> 64,
     num_predict |-> 0, timeout |-> 0]

\* getAdaptiveParameters with the temperature override of very_complex lost
\* and the image budget of complex given to text requests too
getAdaptiveParametersSlips(complexity, hasImages) ==
    CASE complexity = "very_complex" ->
             [baseParams EXCEPT
                 !.num_predict = IF hasImages THEN 3000 ELSE 4000,
                 !.num_ctx = 8192, !.timeout = 600000]
      [] complexity = "complex" ->
             [baseParams EXCEPT
                 !.num_predict = 2000,
                 !.num_ctx = 6144, !.timeout = 300000]
      [] complexity = "moderate" ->
             [baseParams EXCEPT
                 !.num_predict = IF hasImages THEN 1000 ELSE 1200,
                 !.timeout = 180000]
      [] OTHER ->
             [baseParams EXCEPT !.num_predict = 500, !.timeout = 120000]

\* getAdaptiveParameters(complexity, hasImages); timeout in milliseconds
getAdaptiveParameters(complexity, hasImages) ==
    CASE complexity = "very_complex" ->
             [baseParams EXCEPT
                 !.num_predict = IF hasImages THEN 3000 ELSE 4000,
                 !.num_ctx = 8192, !.temperature = 8, !.timeout = 600000]
      [] complexity = "complex" ->
             [baseParams EXCEPT
                 !.num_predict = IF hasImages THEN 2000 ELSE 2500,
                 !.num_ctx = 6144, !.timeout = 300000]
      [] complexity = "moderate" ->
             [baseParams EXCEPT
                 !.num_predict = IF hasImages THEN 1000 ELSE 1200,
                 !.timeout = 180000]
      [] OTHER ->
             [baseParams EXCEPT !.num_predict = 500, !.timeout = 120000]

\* no analysis is under way
NoAnalysis ==
    [pc |-> "none", messages |-> <<>>,
     result |-> [complexity |-> "simple", score |-> 0],
     hasImages |-> FALSE, params |-> baseParams, sent |-> <<>>]

\* a handler runs the analyzer on the history it was sent
Analyze ==
    /\ analysis.pc = "input"
    /\ analysis' =
           IF AnalyzerThrows(analysis.messages)
           THEN [analysis EXCEPT !.pc = "threw"]
           ELSE [analysis EXCEPT
                    !.pc = "analyzed",
                    !.result = analyzeQueryComplexity(analysis.messages)]
    /\ UNCHANGED <<registry, resident, req, session>>

\* the handler passes the class and its image flag to the selector
Select(hasImages) ==
    /\ analysis.pc = "analyzed"
    /\ analysis' =
           [analysis EXCEPT
               !.pc = "selected", !.hasImages = hasImages,
               !.params = getAdaptiveParameters(analysis.result.complexity,
                                                hasImages)]
    /\ UNCHANGED <<registry, resident, req, session>>

(* ---------------------------------------------------------------------- *)
(* Requests                                                                *)
(* ---------------------------------------------------------------------- *)

\* what matters of req.body.messages (chat, resume, progressive) and of
\* req.body.images (generate): no message at all, text only, or images
Histories == {"empty", "text", "images"}

\* axios leaves a call without a timeout option unbounded (timeout: 0)
NoTimeout == 0

\* { timeout: 60000 } of the warm-up call, in milliseconds
LoadTimeout == 60000

\* one engine call of a request made with the option { timeout }
TimedCall(op, m, ok, timeout) ==
    [op |-> op, model |-> m, ok |-> ok, timeout |-> timeout]

\* one engine call of a request made without a timeout option
Call(op, m, ok) == TimedCall(op, m, ok, NoTimeout)

\* the history a request of each kind of Histories carries: no message, one
\* short text message, one short message with an image
HistoryOf(h) ==
    CASE h = "empty" -> <<>>
      [] h = "text" -> <<Msg("user", 39, {}, 0, 0)>>
      [] h = "images" -> <<Msg("user", 39, {}, 0, 1)>>

\* messages.some(msg => msg.images && msg.images.length > 0)
AnyImages(messages) == \E k \in 1..Len(messages) : messages[k].images > 0

\* a request that has not arrived yet
IdleRequest ==
    [kind |-> "none", model |-> NoModel, hist |-> "text", pc |-> "idle",
     psOk |-> FALSE, loaded |-> <<>>, i |-> 1, unloadedCount |-> 0,
     log |-> <<>>, status |-> 0,
     complexity |-> "simple", params |-> baseParams, outcome |-> "none"]

\* no progressive session is open
NoSession == [pc |-> "none"]

\* what the engine holds in memory when the server starts: nothing, one
\* model, two models or all three
StartResident ==
    {{}, {ModelOrder[1]}, {ModelOrder[3]}, {ModelOrder[2], ModelOrder[3]},
     Models}

Init ==
    /\ registry \in Registries
    /\ resident \in StartResident
    /\ req = [r \in Req |-> IdleRequest]
    /\ analysis = NoAnalysis
    /\ session = NoSession

\* express calls the handler of request r; requests are numbered in the
\* order in which they arrive
Arrives(r) ==
    /\ req[r].pc = "idle"
    /\ \A q \in DOMAIN req : q < r => req[q].pc # "idle"

\* NextOther with the loop left after its first keep_alive: 0 call
NextOtherStopsEarly(list, i, m) ==
    LET S == {j \in i..Len(list) : list[j] # m}
    IN IF i > 1 \/ S = {} THEN Len(list) + 1
       ELSE CHOOSE j \in S : \A k \in S : j <= k

\* NextOther without the test "modelInfo.name !== model"
NextOtherNoSkip(list, i, m) == i

\* the first index j >= i of the list whose model is not the target, or
\* Len + 1: the next iteration of "for (const modelInfo of loadedModels)"
\* that passes "modelInfo.name !== model"
RECURSIVE NextOther(_, _, _)
NextOther(list, i, m) ==
    IF i > Len(list) THEN i
    ELSE IF list[i] # m THEN i
    ELSE NextOther(list, i + 1, m)

(* ---------------------------------------------------------------------- *)
(* POST /api/models/preload                                                *)
(* ---------------------------------------------------------------------- *)

Preload(r, m) ==
    /\ Arrives(r)
    /\ req' = [req EXCEPT ![r] =
                 IF InvalidModel(m)
                 THEN [IdleRequest EXCEPT !.kind = "preload", !.model = m,
                                          !.pc = "done", !.status = 400]
                 ELSE [IdleRequest EXCEPT !.kind = "preload", !.model = m,
                                          !.pc = "load"]]
    /\ UNCHANGED <<registry, resident, analysis, session>>

\* PreloadLoad with keep_alive: 0 in the body of its call, as in the unload
\* loop: the call unloads the model
PreloadLoadUnloads(r, ok) ==
    /\ req[r].kind = "preload" /\ req[r].pc = "load"
    /\ resident' \in EvictEffect(resident, req[r].model, ok)
    /\ req' = [req EXCEPT ![r].log = Append(@, Call("evict", req[r].model, ok)),
                          ![r].pc = "done",
                          ![r].status = IF ok THEN 200 ELSE 500]
    /\ UNCHANGED <<registry, analysis, session>>

\* the warm-up call returns (or fails, or exceeds its 60 s timeout)
PreloadLoad(r, ok) ==
    /\ req[r].kind = "preload" /\ req[r].pc = "load"
    /\ resident' \in LoadEffect(resident, req[r].model, ok)
    /\ req' = [req EXCEPT ![r].log = Append(@, TimedCall("load", req[r].model, ok,
                                                         LoadTimeout)),
                          ![r].pc = "done",
                          ![r].status = IF ok THEN 200 ELSE 500]
    /\ UNCHANGED <<registry, analysis, session>>

(* ---------------------------------------------------------------------- *)
(* POST /api/models/unload                                                 *)
(* ---------------------------------------------------------------------- *)

Unload(r) ==
    /\ Arrives(r)
    /\ req' = [req EXCEPT ![r] = [IdleRequest EXCEPT !.kind = "unload",
                                                     !.pc = "ps"]]
    /\ UNCHANGED <<registry, resident, analysis, session>>

\* axios.get(/api/ps) returns; an empty list is answered at once
UnloadPs(r, ok) ==
    /\ req[r].kind = "unload" /\ req[r].pc = "ps"
    /\ LET logged == Append(req[r].log, Call("ps", NoModel, ok))
           list == PsList(resident)
       IN req' = [req EXCEPT ![r] =
                    IF ~ok
                    THEN [@ EXCEPT !.log = logged, !.pc = "done",
                                   !.status = 500]
                    ELSE IF Len(list) = 0
                    THEN [@ EXCEPT !.log = logged, !.psOk = TRUE,
                                   !.loaded = list, !.pc = "done",
                                   !.status = 200]
                    ELSE [@ EXCEPT !.log = logged, !.psOk = TRUE,
                                   !.loaded = list, !.i = 1,
                                   !.pc = "evict"]]
    /\ UNCHANGED <<registry, resident, analysis, session>>

\* UnloadEvict without the try/catch around the call: a failure reaches the
\* outer catch and is answered 500
UnloadEvictAborts(r, ok) ==
    /\ req[r].kind = "unload" /\ req[r].pc = "evict"
    /\ LET m == req[r].loaded[req[r].i]
           last == req[r].i = Len(req[r].loaded)
       IN /\ resident' \in EvictEffect(resident, m, ok)
          /\ req' = [req EXCEPT
                       ![r].log = Append(@, Call("evict", m, ok)),
                       ![r].unloadedCount = IF ok THEN @ + 1 ELSE @,
                       ![r].i = @ + 1,
                       ![r].pc = IF last \/ ~ok THEN "done" ELSE "evict",
                       ![r].status = IF ~ok THEN 500
                                     ELSE IF last THEN 200 ELSE @]
    /\ UNCHANGED <<registry, analysis, session>>

\* one iteration of the unload loop: the keep_alive: 0 call returns, a
\* failure is caught and logged, and after the last one the answer is sent
UnloadEvict(r, ok) ==
    /\ req[r].kind = "unload" /\ req[r].pc = "evict"
    /\ LET m == req[r].loaded[req[r].i]
           last == req[r].i = Len(req[r].loaded)
       IN /\ resident' \in EvictEffect(resident, m, ok)
          /\ req' = [req EXCEPT
                       ![r].log = Append(@, Call("evict", m, ok)),
                       ![r].unloadedCount = IF ok THEN @ + 1 ELSE @,
                       ![r].i = @ + 1,
                       ![r].pc = IF last THEN "done" ELSE "evict",
                       ![r].status = IF last THEN 200 ELSE @]
    /\ UNCHANGED <<registry, analysis, session>>

(* ---------------------------------------------------------------------- *)
(* POST /api/models/switch                                                 *)
(* ---------------------------------------------------------------------- *)

Switch(r, m) ==
    /\ Arrives(r)
    /\ req' = [req EXCEPT ![r] =
                 IF InvalidModel(m)
                 THEN [IdleRequest EXCEPT !.kind = "switch", !.model = m,
                                          !.pc = "done", !.status = 400]
                 ELSE [IdleRequest EXCEPT !.kind = "switch", !.model = m,
                                          !.pc = "ps"]]
    /\ UNCHANGED <<registry, resident, analysis, session>>

\* the residency query returns (server.js sends it as a POST to /api/ps);
\* the loop then runs up to its first keep_alive: 0 call, or, with no other
\* model listed, up to the warm-up call
SwitchPs(r, ok) ==
    /\ req[r].kind = "switch" /\ req[r].pc = "ps"
    /\ LET logged == Append(req[r].log, Call("ps", NoModel, ok))
           list == PsList(resident)
           j == NextOther(list, 1, req[r].model)
       IN req' = [req EXCEPT ![r] =
                    IF ~ok
                    THEN [@ EXCEPT !.log = logged, !.pc = "done",
                                   !.status = 500]
                    ELSE [@ EXCEPT !.log = logged, !.psOk = TRUE,
                                   !.loaded = list, !.i = j,
                                   !.pc = IF j > Len(list) THEN "load"
                                          ELSE "evict"]]
    /\ UNCHANGED <<registry, resident, analysis, session>>

\* SwitchEvict without the try/catch around the call: a failure reaches the
\* outer catch and is answered 500
SwitchEvictAborts(r, ok) ==
    /\ req[r].kind = "switch" /\ req[r].pc = "evict"
    /\ LET m == req[r].loaded[req[r].i]
           j == NextOther(req[r].loaded, req[r].i + 1, req[r].model)
       IN /\ resident' \in EvictEffect(resident, m, ok)
          /\ req' = [req EXCEPT
                       ![r].log = Append(@, Call("evict", m, ok)),
                       ![r].unloadedCount = IF ok THEN @ + 1 ELSE @,
                       ![r].i = j,
                       ![r].pc = IF ~ok THEN "done"
                                 ELSE IF j > Len(req[r].loaded) THEN "load"
                                 ELSE "evict",
                       ![r].status = IF ~ok THEN 500 ELSE @]
    /\ UNCHANGED <<registry, analysis, session>>

\* SwitchEvict with unloadedCount++ after the try/catch instead of in it
SwitchEvictCountsFailures(r, ok) ==
    /\ req[r].kind = "switch" /\ req[r].pc = "evict"
    /\ LET m == req[r].loaded[req[r].i]
           j == NextOther(req[r].loaded, req[r].i + 1, req[r].model)
       IN /\ resident' \in EvictEffect(resident, m, ok)
          /\ req' = [req EXCEPT
                       ![r].log = Append(@, Call("evict", m, ok)),
                       ![r].unloadedCount = @ + 1,
                       ![r].i = j,
                       ![r].pc = IF j > Len(req[r].loaded) THEN "load"
                                 ELSE "evict"]
    /\ UNCHANGED <<registry, analysis, session>>

\* one keep_alive: 0 call of the switch loop returns; a failure is caught
SwitchEvict(r, ok) ==
    /\ req[r].kind = "switch" /\ req[r].pc = "evict"
    /\ LET m == req[r].loaded[req[r].i]
           j == NextOther(req[r].loaded, req[r].i + 1, req[r].model)
       IN /\ resident' \in EvictEffect(resident, m, ok)
          /\ req' = [req EXCEPT
                       ![r].log = Append(@, Call("evict", m, ok)),
                       ![r].unloadedCount = IF ok THEN @ + 1 ELSE @,
                       ![r].i = j,
                       ![r].pc = IF j > Len(req[r].loaded) THEN "load"
                                 ELSE "evict"]
    /\ UNCHANGED <<registry, analysis, session>>

\* SwitchLoad with the warm-up call wrapped in a try/catch of its own, like
\* the calls of the loop: its failure is logged and success is answered
SwitchLoadSwallowsFailure(r, ok) ==
    /\ req[r].kind = "switch" /\ req[r].pc = "load"
    /\ resident' \in LoadEffect(resident, req[r].model, ok)
    /\ req' = [req EXCEPT ![r].log = Append(@, TimedCall("load", req[r].model, ok,
                                                         LoadTimeout)),
                          ![r].pc = "done",
                          ![r].status = 200]
    /\ UNCHANGED <<registry, analysis, session>>

\* the warm-up call for the target returns; a failure reaches the outer
\* catch and is answered 500
SwitchLoad(r, ok) ==
    /\ req[r].kind = "switch" /\ req[r].pc = "load"
    /\ resident' \in LoadEffect(resident, req[r].model, ok)
    /\ req' = [req EXCEPT ![r].log = Append(@, TimedCall("load", req[r].model, ok,
                                                         LoadTimeout)),
                          ![r].pc = "done",
                          ![r].status = IF ok THEN 200 ELSE 500]
    /\ UNCHANGED <<registry, analysis, session>>

(* ---------------------------------------------------------------------- *)
(* POST /api/chat                                                          *)
(* ---------------------------------------------------------------------- *)

\* the status the catch block of the chat handler answers with
\* ChatErrorStatus without the test of error.response.status
ChatErrorStatusWithout404(outcome) ==
    CASE outcome = "ECONNREFUSED" -> 503
      [] outcome = "ECONNABORTED" -> 408
      [] OTHER -> 500

\* the catch block of the chat handler: error.code and error.response.status
\* choose the status of the answer
ChatErrorStatus(outcome) ==
    CASE outcome = "ECONNREFUSED" -> 503
      [] outcome = "HTTP404" -> 404
      [] outcome = "ECONNABORTED" -> 408
      [] OTHER -> 500

\* ImagesUnsupported with the negation of supportsImages lost
ImagesUnsupportedNegationLost(m, h) ==
    h = "images" /\ registry[m].supportsImages

\* hasImages && !modelConfig.supportsImages, for a registered model m
ImagesUnsupported(m, h) == h = "images" /\ ~registry[m].supportsImages

\* MustSwitch without "|| hasOtherModelsLoaded"
MustSwitchOnlyWhenNotLoaded(list, m) ==
    ~(\E k \in 1..Len(list) : list[k] = m)

\* !isModelLoaded || hasOtherModelsLoaded
MustSwitch(list, m) ==
    \/ ~(\E k \in 1..Len(list) : list[k] = m)
    \/ \E k \in 1..Len(list) : list[k] # m

\* AfterResidencyQuery without the try/catch around the residency step: a
\* query that failed reaches the outer catch and is answered 500
AfterResidencyQueryRethrows(q, ok, list) ==
    LET logged == Append(q.log, Call("ps", NoModel, ok))
        j == NextOther(list, 1, q.model)
    IN IF ~ok
       THEN [q EXCEPT !.log = logged, !.pc = "done", !.status = 500]
       ELSE [q EXCEPT !.log = logged, !.psOk = TRUE, !.loaded = list,
                      !.i = j,
                      !.pc = IF MustSwitch(list, q.model) /\ j <= Len(list)
                             THEN "evict" ELSE "gen"]

\* the state of a chat/generate handler once its residency query has
\* answered: the listed models other than the target are unloaded one by
\* one; a query that failed is logged and the handler goes on to its call
AfterResidencyQuery(q, ok, list) ==
    LET logged == Append(q.log, Call("ps", NoModel, ok))
        j == NextOther(list, 1, q.model)
    IN IF ~ok
       THEN [q EXCEPT !.log = logged, !.pc = "gen"]
       ELSE [q EXCEPT !.log = logged, !.psOk = TRUE, !.loaded = list,
                      !.i = j,
                      !.pc = IF MustSwitch(list, q.model) /\ j <= Len(list)
                             THEN "evict" ELSE "gen"]

\* the state of a chat/generate handler once one keep_alive: 0 call of its
\* loop has answered; a failure is caught and logged
AfterResidencyEvict(q, ok) ==
    LET j == NextOther(q.loaded, q.i + 1, q.model)
    IN [q EXCEPT !.log = Append(@, Call("evict", q.loaded[q.i], ok)),
                 !.i = j,
                 !.pc = IF j > Len(q.loaded) THEN "gen" ELSE "evict"]

\* model and image validation, then analyzeQueryComplexity, which reads
\* messages[messages.length - 1].content and throws on an empty history
Chat(r, m, h) ==
    /\ Arrives(r)
    /\ LET q == [IdleRequest EXCEPT !.kind = "chat", !.model = m, !.hist = h]
           messages == HistoryOf(h)
           complexity == analyzeQueryComplexity(messages).complexity
       IN req' = [req EXCEPT ![r] =
                    IF InvalidModel(m)
                    THEN [q EXCEPT !.pc = "done", !.status = 400]
                    ELSE IF ImagesUnsupported(m, h)
                    THEN [q EXCEPT !.pc = "done", !.status = 400]
                    ELSE IF AnalyzerThrows(messages)
                    THEN [q EXCEPT !.pc = "done",
                                   !.status = ChatErrorStatus("OTHER")]
                    ELSE [q EXCEPT
                             !.pc = "ps", !.complexity = complexity,
                             !.params = getAdaptiveParameters(
                                            complexity, AnyImages(messages))]]
    /\ UNCHANGED <<registry, resident, analysis, session>>

ChatPs(r, ok) ==
    /\ req[r].kind = "chat" /\ req[r].pc = "ps"
    /\ req' = [req EXCEPT ![r] = AfterResidencyQuery(@, ok, PsList(resident))]
    /\ UNCHANGED <<registry, resident, analysis, session>>

\* ChatEvict holding back while another request is about to call the
\* engine with the model to unload
ChatEvictExclusive(r, ok) ==
    /\ req[r].kind = "chat" /\ req[r].pc = "evict"
    /\ ~\E q \in DOMAIN req :
           /\ q # r /\ req[q].pc = "gen"
           /\ req[q].model = req[r].loaded[req[r].i]
    /\ resident' \in EvictEffect(resident, req[r].loaded[req[r].i], ok)
    /\ req' = [req EXCEPT ![r] = AfterResidencyEvict(@, ok)]
    /\ UNCHANGED <<registry, analysis, session>>

ChatEvict(r, ok) ==
    /\ req[r].kind = "chat" /\ req[r].pc = "evict"
    /\ resident' \in EvictEffect(resident, req[r].loaded[req[r].i], ok)
    /\ req' = [req EXCEPT ![r] = AfterResidencyEvict(@, ok)]
    /\ UNCHANGED <<registry, analysis, session>>

\* axios.post(/api/chat) returns: the reply is sent (or piped), or the catch
\* block maps the error
\* ChatCall sending the chat call again after a failure
ChatCallRetries(r, outcome) ==
    /\ req[r].kind = "chat" /\ req[r].pc = "gen"
    /\ resident' \in CallEffect(resident, req[r].model, outcome)
    /\ req' = [req EXCEPT
                 ![r].log = Append(@, TimedCall("chat", req[r].model,
                                                outcome = "ok",
                                                req[r].params.timeout)),
                 ![r].outcome = outcome,
                 ![r].pc = IF outcome = "ok" \/ Len(req[r].log) >= 4
                           THEN "done" ELSE "gen",
                 ![r].status = IF outcome = "ok" THEN 200
                               ELSE IF Len(req[r].log) >= 4
                               THEN ChatErrorStatus(outcome) ELSE 0]
    /\ UNCHANGED <<registry, analysis, session>>

ChatCall(r, outcome) ==
    /\ req[r].kind = "chat" /\ req[r].pc = "gen"
    /\ resident' \in CallEffect(resident, req[r].model, outcome)
    /\ req' = [req EXCEPT
                 ![r].log = Append(@, TimedCall("chat", req[r].model,
                                                outcome = "ok",
                                                req[r].params.timeout)),
                 ![r].outcome = outcome,
                 ![r].pc = "done",
                 ![r].status = IF outcome = "ok" THEN 200
                               ELSE ChatErrorStatus(outcome)]
    /\ UNCHANGED <<registry, analysis, session>>

(* ---------------------------------------------------------------------- *)
(* POST /api/generate                                                      *)
(* ---------------------------------------------------------------------- *)

\* h = "images": req.body.images is a non-empty list; the analyzer runs on
\* the one message built from the prompt, so it cannot throw
Generate(r, m, h) ==
    /\ Arrives(r)
    /\ h # "empty"
    /\ LET q == [IdleRequest EXCEPT !.kind = "generate", !.model = m,
                                    !.hist = h]
           messages == HistoryOf(h)
           complexity == analyzeQueryComplexity(messages).complexity
       IN req' = [req EXCEPT ![r] =
                    IF InvalidModel(m)
                    THEN [q EXCEPT !.pc = "done", !.status = 400]
                    ELSE IF ImagesUnsupported(m, h)
                    THEN [q EXCEPT !.pc = "done", !.status = 400]
                    ELSE [q EXCEPT
                             !.pc = "ps", !.complexity = complexity,
                             !.params = getAdaptiveParameters(
                                            complexity, h = "images")]]
    /\ UNCHANGED <<registry, resident, analysis, session>>

GeneratePs(r, ok) ==
    /\ req[r].kind = "generate" /\ req[r].pc = "ps"
    /\ req' = [req EXCEPT ![r] = AfterResidencyQuery(@, ok, PsList(resident))]
    /\ UNCHANGED <<registry, resident, analysis, session>>

GenerateEvict(r, ok) ==
    /\ req[r].kind = "generate" /\ req[r].pc = "evict"
    /\ resident' \in EvictEffect(resident, req[r].loaded[req[r].i], ok)
    /\ req' = [req EXCEPT ![r] = AfterResidencyEvict(@, ok)]
    /\ UNCHANGED <<registry, analysis, session>>

\* axios.post(/api/generate) returns; every error is answered 500
GenerateCall(r, outcome) ==
    /\ req[r].kind = "generate" /\ req[r].pc = "gen"
    /\ resident' \in CallEffect(resident, req[r].model, outcome)
    /\ req' = [req EXCEPT
                 ![r].log = Append(@, TimedCall("generate", req[r].model,
                                                outcome = "ok",
                                                req[r].params.timeout)),
                 ![r].outcome = outcome,
                 ![r].pc = "done",
                 ![r].status = IF outcome = "ok" THEN 200 ELSE 500]
    /\ UNCHANGED <<registry, analysis, session>>

(* ---------------------------------------------------------------------- *)
(* POST /api/chat/resume                                                   *)
(* ---------------------------------------------------------------------- *)

\* model validation, then lastMessage.role, which throws on an empty
\* history; the handler goes straight to its chat call
\* Resume reading the role of the last message with messages.at(-1)?.role:
\* an empty history no longer throws
ResumeToleratesEmptyHistory(r, m, h) ==
    /\ Arrives(r)
    /\ LET q == [IdleRequest EXCEPT !.kind = "resume", !.model = m,
                                    !.hist = h]
       IN req' = [req EXCEPT ![r] =
                    IF InvalidModel(m)
                    THEN [q EXCEPT !.pc = "done", !.status = 400]
                    ELSE [q EXCEPT
                             !.pc = "gen",
                             !.params = getAdaptiveParameters("complex",
                                                              FALSE)]]
    /\ UNCHANGED <<registry, resident, analysis, session>>

\* Resume taking the class of its parameters from the analyzer
ResumeUsesAnalyzer(r, m, h) ==
    /\ Arrives(r)
    /\ LET q == [IdleRequest EXCEPT !.kind = "resume", !.model = m,
                                    !.hist = h]
       IN req' = [req EXCEPT ![r] =
                    IF InvalidModel(m)
                    THEN [q EXCEPT !.pc = "done", !.status = 400]
                    ELSE IF h = "empty"
                    THEN [q EXCEPT !.pc = "done", !.status = 500]
                    ELSE [q EXCEPT
                             !.pc = "gen",
                             !.params = getAdaptiveParameters(
                                 analyzeQueryComplexity(HistoryOf(h)).complexity,
                                 FALSE)]]
    /\ UNCHANGED <<registry, resident, analysis, session>>

Resume(r, m, h) ==
    /\ Arrives(r)
    /\ LET q == [IdleRequest EXCEPT !.kind = "resume", !.model = m,
                                    !.hist = h]
       IN req' = [req EXCEPT ![r] =
                    IF InvalidModel(m)
                    THEN [q EXCEPT !.pc = "done", !.status = 400]
                    ELSE IF h = "empty"
                    THEN [q EXCEPT !.pc = "done", !.status = 500]
                    ELSE [q EXCEPT
                             !.pc = "gen",
                             !.params = getAdaptiveParameters("complex",
                                                              FALSE)]]
    /\ UNCHANGED <<registry, resident, analysis, session>>

ResumeCall(r, outcome) ==
    /\ req[r].kind = "resume" /\ req[r].pc = "gen"
    /\ resident' \in CallEffect(resident, req[r].model, outcome)
    /\ req' = [req EXCEPT
                 ![r].log = Append(@, TimedCall("chat", req[r].model,
                                                outcome = "ok",
                                                req[r].params.timeout)),
                 ![r].outcome = outcome,
                 ![r].pc = "done",
                 ![r].status = IF outcome = "ok" THEN 200 ELSE 500]
    /\ UNCHANGED <<registry, analysis, session>>

(* ---------------------------------------------------------------------- *)
(* POST /api/chat/progressive                                              *)
(* ---------------------------------------------------------------------- *)

\* model validation, then analyzeQueryComplexity, which throws on an empty
\* history; the handler goes straight to its chat call
Progressive(r, m, h) ==
    /\ Arrives(r)
    /\ LET q == [IdleRequest EXCEPT !.kind = "progressive", !.model = m,
                                    !.hist = h]
       IN req' = [req EXCEPT ![r] =
                    IF InvalidModel(m)
                    THEN [q EXCEPT !.pc = "done", !.status = 400]
                    ELSE IF AnalyzerThrows(HistoryOf(h))
                    THEN [q EXCEPT !.pc = "done", !.status = 500]
                    ELSE [q EXCEPT
                             !.pc = "gen",
                             !.complexity =
                                 analyzeQueryComplexity(HistoryOf(h)).complexity,
                             !.params = getAdaptiveParameters(
                                 analyzeQueryComplexity(HistoryOf(h)).complexity,
                                 FALSE)]]
    /\ UNCHANGED <<registry, resident, analysis, session>>

\* axios.post(/api/chat, stream) returns: the stream handlers are attached
\* and the answer (status 200) is written as the stream arrives, or the
\* catch block answers 500
ProgressiveCall(r, outcome) ==
    /\ req[r].kind = "progressive" /\ req[r].pc = "gen"
    /\ resident' \in CallEffect(resident, req[r].model, outcome)
    /\ req' = [req EXCEPT
                 ![r].log = Append(@, TimedCall("chat", req[r].model,
                                                outcome = "ok",
                                                req[r].params.timeout)),
                 ![r].outcome = outcome,
                 ![r].pc = IF outcome = "ok" THEN "stream" ELSE "done",
                 ![r].status = IF outcome = "ok" THEN 200 ELSE 500]
    /\ UNCHANGED <<registry, analysis, session>>

(* ---------------------------------------------------------------------- *)
(* The middleware                                                          *)
(* ---------------------------------------------------------------------- *)

Next ==
    \E r \in Req :
        \/ \E m \in ModelInputs : Preload(r, m)
        \/ \E ok \in BOOLEAN : PreloadLoad(r, ok)
        \/ Unload(r)
        \/ \E ok \in BOOLEAN : UnloadPs(r, ok)
        \/ \E ok \in BOOLEAN : UnloadEvict(r, ok)
        \/ \E m \in ModelInputs : Switch(r, m)
        \/ \E ok \in BOOLEAN : SwitchPs(r, ok)
        \/ \E ok \in BOOLEAN : SwitchEvict(r, ok)
        \/ \E ok \in BOOLEAN : SwitchLoad(r, ok)
        \/ \E m \in ModelInputs, h \in Histories : Chat(r, m, h)
        \/ \E ok \in BOOLEAN : ChatPs(r, ok)
        \/ \E ok \in BOOLEAN : ChatEvict(r, ok)
        \/ \E outcome \in GenOutcomes : ChatCall(r, outcome)
        \/ \E m \in ModelInputs, h \in Histories : Generate(r, m, h)
        \/ \E ok \in BOOLEAN : GeneratePs(r, ok)
        \/ \E ok \in BOOLEAN : GenerateEvict(r, ok)
        \/ \E outcome \in GenOutcomes : GenerateCall(r, outcome)
        \/ \E m \in ModelInputs, h \in Histories : Resume(r, m, h)
        \/ \E outcome \in GenOutcomes : ResumeCall(r, outcome)
        \/ \E m \in ModelInputs, h \in Histories : Progressive(r, m, h)
        \/ \E outcome \in GenOutcomes : ProgressiveCall(r, outcome)

Spec == Init /\ [][Next]_vars

(* ---------------------------------------------------------------------- *)
(* Concurrent chat and generate requests                                   *)
(* ---------------------------------------------------------------------- *)

\* number of chat/generate requests in flight together
NumRacers == 2

Racers == 1..NumRacers

\* express interleaves the handlers at their awaits: between two engine
\* calls of one request any other request may run.  The engine is up and
\* answers every call of the racing requests
InitRace ==
    /\ registry = DocumentedRegistry
    /\ resident \in StartResident
    /\ req = [r \in Racers |-> IdleRequest]
    /\ analysis = NoAnalysis
    /\ session = NoSession

NextRace ==
    \E r \in Racers :
        \/ \E m \in Models : Chat(r, m, "text")
        \/ ChatPs(r, TRUE)
        \/ ChatEvict(r, TRUE)
        \/ ChatCall(r, "ok")
        \/ \E m \in Models : Generate(r, m, "text")
        \/ GeneratePs(r, TRUE)
        \/ GenerateEvict(r, TRUE)
        \/ GenerateCall(r, "ok")

SpecRace == InitRace /\ [][NextRace]_vars

(* ---------------------------------------------------------------------- *)
(* The analyzer and the selector on their own                              *)
(* ---------------------------------------------------------------------- *)

\* longest history analyzed
MaxHistoryLen == 11

\* most question marks in a message
MaxQuestionMarks == 2

\* content lengths on both sides of the thresholds of LengthScore
ContentLengths == {0, 39, 500, 501, 1000, 1001, 2000, 2001, 2200}

\* the indicators a content matches: the first k of them, or one alone
MatchSets ==
    {1..k : k \in 0..NumIndicators} \cup {{k} : k \in 1..NumIndicators}

LastMessages ==
    {Msg("user", l, ms, q, i) :
        l \in ContentLengths, ms \in MatchSets, q \in 0..MaxQuestionMarks,
        i \in {0, 1}}

\* a history of n messages that ends with the message last; the earlier
\* turns alternate between the user and the assistant
History(n, last) ==
    [k \in 1..n |->
        IF k = n THEN last
        ELSE Msg(IF (n - k) % 2 = 0 THEN "user" ELSE "assistant", 39, {}, 0, 0)]

Histories4Analysis ==
    {<<>>} \cup {History(n, last) : n \in 1..MaxHistoryLen, last \in LastMessages}

InitClassify ==
    /\ registry = ShippedRegistry
    /\ resident = {}
    /\ req = [r \in Req |-> IdleRequest]
    /\ session = NoSession
    /\ analysis \in {[NoAnalysis EXCEPT !.pc = "input", !.messages = h] :
                        h \in Histories4Analysis}

NextClassify ==
    \/ Analyze
    \/ \E hasImages \in BOOLEAN : Select(hasImages)

SpecClassify == InitClassify /\ [][NextClassify]_vars

(* ---------------------------------------------------------------------- *)
(* The continuation of an interrupted response on its own                  *)
(* ---------------------------------------------------------------------- *)

\* length of the continuationPrompt template around ${partial_response}
PromptFrameLength == 131

\* req.body.partial_response, by what the analyzer would read of it
PartialResponses ==
    {[length |-> 0, matches |-> {}, questionMarks |-> 0],
     [length |-> 3, matches |-> {}, questionMarks |-> 0],
     [length |-> 600, matches |-> {9}, questionMarks |-> 1]}

\* the template puts partial_response between quotes on lines of its own;
\* no indicator matches the template, and none matches across a newline
continuationPrompt(partial_response) ==
    [length |-> PromptFrameLength + partial_response.length,
     matches |-> partial_response.matches,
     questionMarks |-> partial_response.questionMarks]

\* [...messages.slice(0, -1), {role: lastMessage.role, content: prompt}]
continuationMessages(messages, partial_response) ==
    LET lastMessage == messages[Len(messages)]
        prompt == continuationPrompt(partial_response)
    IN SubSeq(messages, 1, Len(messages) - 1) \o
           <<Msg(lastMessage.role, prompt.length, prompt.matches,
                 prompt.questionMarks, 0)>>

\* the resume handler builds the messages it sends; lastMessage.role throws
\* a TypeError on an empty history
Continue(partial_response) ==
    /\ analysis.pc = "input"
    /\ analysis' =
           IF Len(analysis.messages) = 0
           THEN [analysis EXCEPT !.pc = "threw"]
           ELSE [analysis EXCEPT
                    !.pc = "continued",
                    !.sent = continuationMessages(analysis.messages,
                                                  partial_response)]
    /\ UNCHANGED <<registry, resident, req, session>>

\* the last message of a history to resume comes from either side
LastToResume ==
    {Msg(role, l, {}, 0, i) :
        role \in {"user", "assistant"}, l \in {0, 39}, i \in {0, 1}}

Histories4Resume ==
    {<<>>} \cup {History(n, last) : n \in 1..MaxHistoryLen, last \in LastToResume}

InitContinue ==
    /\ registry = ShippedRegistry
    /\ resident = {}
    /\ req = [r \in Req |-> IdleRequest]
    /\ session = NoSession
    /\ analysis \in {[NoAnalysis EXCEPT !.pc = "input", !.messages = h] :
                        h \in Histories4Resume}

NextContinue == \E partial_response \in PartialResponses : Continue(partial_response)

SpecContinue == InitContinue /\ [][NextContinue]_vars

(* ---------------------------------------------------------------------- *)
(* The progressive session on its own: the data and error handlers of     *)
(* POST /api/chat/progressive once the engine accepted the chat call.     *)
(* A text is the sequence of its characters; the engine's content is the  *)
(* text whose p-th character is p, so that a character lost, repeated or  *)
(* out of place shows.                                                     *)
(* ---------------------------------------------------------------------- *)

\* the largest chunk_size a caller supplies
MaxChunkSize == 2

\* the longest content the engine streams in a session
MaxContent == 3

\* the longest content of one engine line
MaxFragment == 3

\* the most lines in one data event
MaxLines == 2

\* the most data events of a session
MaxEvents == 2

\* chunk_size of req.body: any number, zero and negative ones included
ChunkSizes == -1..MaxChunkSize

Clamp(n, len) == IF n < 0 THEN 0 ELSE IF n > len THEN len ELSE n

\* String.prototype.substring shifted by one index
SubstringOffByOne(str, start, end) ==
    SubSeq(str, Clamp(start, Len(str)) + 2, Clamp(end, Len(str)))

\* String.prototype.substring(start, end): both indices are clamped to
\* 0..length and swapped when start > end
Substring(str, start, end) ==
    LET a == Clamp(start, Len(str))
        b == Clamp(end, Len(str))
    IN IF a <= b THEN SubSeq(str, a + 1, b) ELSE SubSeq(str, b + 1, a)

\* `CHUNK_${index}: ${text}\n\n`, 'DONE\n' and `ERROR: ${error.message}\n`
ChunkLine(index, text) == [kind |-> "CHUNK", index |-> index, text |-> text]
DoneLine == [kind |-> "DONE", index |-> 0, text |-> <<>>]
ErrorLine == [kind |-> "ERROR", index |-> 0, text |-> <<>>]

\* one line of a data event: blank, not parseable, or a JSON object with
\* message.content and done
BlankLine == [kind |-> "blank", content |-> <<>>, done |-> FALSE]
MalformedLine == [kind |-> "malformed", content |-> <<>>, done |-> FALSE]
JsonLine(content, done) == [kind |-> "json", content |-> content, done |-> done]

\* chunk.toString().split('\n') works on one data event at a time: a JSON
\* line that the transport cuts in two reaches the handler as the last
\* "line" of one event (head) and the first of the next (tail), neither of
\* which JSON.parse accepts.  The head stands for the whole line in what
\* the engine has sent
TailPiece == [kind |-> "tail", content |-> <<>>, done |-> FALSE]

\* the lines of a data event with the last one cut by the event boundary
CutLast(lines) == [lines EXCEPT ![Len(lines)] = [@ EXCEPT !.kind = "head"]]

\* the next n characters of the engine's content after the first k
Fragment(k, n) == [p \in 1..n |-> k + p]

\* the lines the engine can send next when it has sent k characters
LinesAfter(k) ==
    {BlankLine, MalformedLine}
    \cup {JsonLine(Fragment(k, n), done) :
              n \in 1..(IF MaxContent - k < MaxFragment
                        THEN MaxContent - k ELSE MaxFragment),
              done \in BOOLEAN}
    \cup {JsonLine(<<>>, TRUE)}

\* the sequences of at most n lines the engine can send next when it has
\* sent k characters
RECURSIVE LinesUpTo(_, _)
LinesUpTo(k, n) ==
    IF n = 0 THEN {<<>>}
    ELSE {<<>>} \cup
         UNION {{<<line>> \o rest : rest \in LinesUpTo(k + Len(line.content),
                                                       n - 1)} :
                    line \in LinesAfter(k)}

\* the data events the engine can send next when it has sent k characters:
\* one line at least
EventsAfter == [k \in 0..MaxContent |-> LinesUpTo(k, MaxLines) \ {<<>>}]

\* let buffer = ''; let chunkCount = 0; with what the response has accepted
\* (out), whether the caller has disconnected (closed), the writes attempted
\* after res.end() or after the caller disconnected (late), and what the
\* engine has sent: its content (sent), its data events (nEvents), its done
\* lines (dones), whether a line followed a done line (afterDone), whether a
\* line was not parseable (malformed), whether the last event ended inside
\* a line (cut), whether any line was cut by an event boundary (split)
OpenedSession(chunk_size) ==
    [pc |-> "open", chunk_size |-> chunk_size, buffer |-> <<>>,
     chunkCount |-> 0, out |-> <<>>, ended |-> FALSE, closed |-> FALSE,
     late |-> 0,
     engine |-> "flowing", sent |-> <<>>, nEvents |-> 0,
     dones |-> 0, afterDone |-> FALSE, malformed |-> FALSE,
     cut |-> FALSE, split |-> FALSE]

\* res.write(line): a response that was ended, or whose caller is gone,
\* accepts nothing more
Write(s, line) ==
    IF s.ended \/ s.closed THEN [s EXCEPT !.late = @ + 1]
    ELSE [s EXCEPT !.out = Append(@, line)]

\* the chunk loop with the index incremented before it is used
RECURSIVE EmitChunksPreIncrement(_)
EmitChunksPreIncrement(s) ==
    IF Len(s.buffer) >= s.chunk_size
    THEN LET chunkToSend == Substring(s.buffer, 0, s.chunk_size)
             rest == Substring(s.buffer, s.chunk_size, Len(s.buffer))
         IN IF rest = s.buffer
            THEN [Write(s, ChunkLine(s.chunkCount + 1, chunkToSend))
                    EXCEPT !.chunkCount = @ + 1, !.pc = "spinning"]
            ELSE EmitChunksPreIncrement(
                     [Write(s, ChunkLine(s.chunkCount + 1, chunkToSend))
                        EXCEPT !.buffer = rest, !.chunkCount = @ + 1])
    ELSE s

\* while (buffer.length >= chunk_size) { ... }: each turn writes the first
\* chunk_size characters under the index chunkCount++ and keeps the rest; a
\* turn that leaves the buffer as it was is followed by the same turn for
\* ever: the handler never returns (pc "spinning", with the first of these
\* turns recorded)
RECURSIVE EmitChunks(_)
EmitChunks(s) ==
    IF Len(s.buffer) >= s.chunk_size
    THEN LET chunkToSend == Substring(s.buffer, 0, s.chunk_size)
             rest == Substring(s.buffer, s.chunk_size, Len(s.buffer))
         IN IF rest = s.buffer
            THEN [Write(s, ChunkLine(s.chunkCount, chunkToSend))
                    EXCEPT !.chunkCount = @ + 1, !.pc = "spinning"]
            ELSE EmitChunks([Write(s, ChunkLine(s.chunkCount, chunkToSend))
                               EXCEPT !.buffer = rest, !.chunkCount = @ + 1])
    ELSE s

\* if (data.done) { ... }: the rest of the buffer as a last chunk, DONE and
\* res.end(); the buffer is left as it is
OnDone(s) ==
    LET flushed == IF Len(s.buffer) > 0
                   THEN [Write(s, ChunkLine(s.chunkCount, s.buffer))
                           EXCEPT !.chunkCount = @ + 1]
                   ELSE s
    IN [Write(flushed, DoneLine) EXCEPT !.ended = TRUE]

\* the body of the for loop for one parsed line
OnLine(s, line) ==
    LET grown == IF Len(line.content) > 0
                 THEN EmitChunks([s EXCEPT !.buffer = @ \o line.content])
                 ELSE s
    IN IF grown.pc = "spinning" THEN grown
       ELSE IF line.done THEN OnDone(grown)
       ELSE grown

\* for (const line of lines) inside one try: a blank line is passed over, a
\* line JSON.parse rejects (a malformed line, a piece of a cut line) ends
\* the loop, the lines after it are not read
RECURSIVE OnLines(_, _, _)
OnLines(s, lines, k) ==
    IF k > Len(lines) \/ s.pc = "spinning" THEN s
    ELSE IF lines[k].kind = "blank" THEN OnLines(s, lines, k + 1)
    ELSE IF lines[k].kind \in {"malformed", "head", "tail"} THEN s
    ELSE OnLines(OnLine(s, lines[k]), lines, k + 1)

\* what the engine has sent once it has sent the lines of one more event
RECURSIVE Sent(_, _, _)
Sent(s, lines, k) ==
    IF k > Len(lines) THEN [s EXCEPT !.nEvents = @ + 1]
    ELSE Sent([s EXCEPT
                 !.sent = @ \o lines[k].content,
                 !.dones = IF lines[k].done THEN @ + 1 ELSE @,
                 !.afterDone = @ \/ (s.dones > 0
                                      /\ lines[k].kind \notin {"blank", "tail"}),
                 !.malformed = @ \/ lines[k].kind = "malformed",
                 !.cut = lines[k].kind = "head",
                 !.split = @ \/ lines[k].kind = "head"],
              lines, k + 1)

\* the engine accepted the chat call of a progressive request
OpenSession(chunk_size) ==
    /\ session.pc = "none"
    /\ session' = OpenedSession(chunk_size)
    /\ UNCHANGED <<registry, resident, req, analysis>>

\* ollamaResponse.data.on('data', ...) for one data event: it starts with
\* the rest of the line the event before it cut, and may itself end inside
\* a JSON line when another event follows
OnData ==
    /\ session.pc = "open" /\ session.engine = "flowing"
    /\ session.nEvents < MaxEvents
    /\ \E lines \in EventsAfter[Len(session.sent)], cutLast \in BOOLEAN :
           /\ cutLast => /\ lines[Len(lines)].kind = "json"
                         /\ session.nEvents + 1 < MaxEvents
           /\ LET event == (IF session.cut THEN <<TailPiece>> ELSE <<>>)
                           \o (IF cutLast THEN CutLast(lines) ELSE lines)
              IN session' = OnLines(Sent(session, event, 1), event, 1)
    /\ UNCHANGED <<registry, resident, req, analysis>>

\* the error handler ending the response without an ERROR line
OnErrorWithoutLine ==
    /\ session.pc = "open" /\ session.engine = "flowing"
    /\ session' = [session EXCEPT !.ended = TRUE, !.engine = "failed"]
    /\ UNCHANGED <<registry, resident, req, analysis>>

\* ollamaResponse.data.on('error', ...): ERROR line and res.end(); the
\* stream delivers nothing after its error
OnError ==
    /\ session.pc = "open" /\ session.engine = "flowing"
    /\ session' = [Write(session, ErrorLine)
                     EXCEPT !.ended = TRUE, !.engine = "failed"]
    /\ UNCHANGED <<registry, resident, req, analysis>>

\* the engine's stream ends, after a whole line: no handler is registered
\* for it
OnEnd ==
    /\ session.pc = "open" /\ session.engine = "flowing"
    /\ ~session.cut
    /\ session' = [session EXCEPT !.engine = "closed"]
    /\ UNCHANGED <<registry, resident, req, analysis>>

\* the caller disconnects before the response was ended: no handler is
\* registered for it, the engine's stream goes on
OnClose ==
    /\ session.pc = "open" /\ ~session.ended /\ ~session.closed
    /\ session' = [session EXCEPT !.closed = TRUE]
    /\ UNCHANGED <<registry, resident, req, analysis>>

InitStream ==
    /\ registry = ShippedRegistry
    /\ resident = {}
    /\ req = [r \in Req |-> IdleRequest]
    /\ analysis = NoAnalysis
    /\ session = NoSession

NextStream ==
    \/ \E chunk_size \in ChunkSizes : OpenSession(chunk_size)
    \/ OnData
    \/ OnError
    \/ OnEnd
    \/ OnClose

SpecStream == InitStream /\ [][NextStream]_vars

(* ---------------------------------------------------------------------- *)
(* Vocabulary of the properties                                            *)
(* ---------------------------------------------------------------------- *)

\* the positions of the calls of kind op in the log of request r
CallsOf(r, op) == {k \in 1..Len(req[r].log) : req[r].log[k].op = op}

\* the models of a list other than m
Others(list, m) == {list[k] : k \in 1..Len(list)} \ {m}

\* the models for which request r made an evict call that failed
FailedEvictions(r) ==
    {req[r].log[k].model : k \in {j \in CallsOf(r, "evict") : ~req[r].log[j].ok}}

\* the models for which request r made an evict call that succeeded
Evicted(r) ==
    {req[r].log[k].model : k \in {j \in CallsOf(r, "evict") : req[r].log[j].ok}}

\* no request other than r has arrived
Alone(r) == \A q \in DOMAIN req : q # r => req[q].pc = "idle"

\* request r is a switch that has answered with success
SwitchSucceeded(r) ==
    req[r].kind = "switch" /\ req[r].pc = "done" /\ req[r].status = 200

(* ---------------------------------------------------------------------- *)
(* C1                                                                      *)
(* ---------------------------------------------------------------------- *)

\* C1 as claimed: after a switch that answered with success while no other
\* request was running, at most one model is resident, whatever the evict
\* calls answered.
C1_AtMostOneResidentAfterSwitch ==
    \A r \in DOMAIN req :
        SwitchSucceeded(r) /\ Alone(r) => Cardinality(resident) <= 1

\* C1 amended: after a switch to X that answered with success while no other
\* request was running, X is resident and every other resident model is one
\* whose evict call failed; so X alone is resident when every evict call
\* succeeded.
C1_ResidentIsTargetPlusFailedEvictions ==
    \A r \in DOMAIN req :
        SwitchSucceeded(r) /\ Alone(r) =>
            /\ req[r].model \in resident
            /\ resident \subseteq {req[r].model} \cup FailedEvictions(r)

\* a successful switch that found two other models resident and evicted both
C1_Witness ==
    \E r \in Req :
        /\ SwitchSucceeded(r) /\ Alone(r)
        /\ Cardinality(Others(req[r].loaded, req[r].model)) = 2
        /\ FailedEvictions(r) = {}
        /\ resident = {req[r].model}

(* ---------------------------------------------------------------------- *)
(* C2                                                                      *)
(* ---------------------------------------------------------------------- *)

\* request r is a chat or generate request that carries images for a
\* registered model without image support
ImagesForTextModel(r) ==
    /\ req[r].kind \in {"chat", "generate"}
    /\ req[r].hist = "images"
    /\ req[r].model \in DOMAIN registry
    /\ ~registry[req[r].model].supportsImages

\* C2: a chat or generate request with images for a registered model whose
\* supportsImages is false is answered 400 and makes no engine call.
C2_ImagesRejectedBeforeAnyEngineCall ==
    \A r \in DOMAIN req :
        ImagesForTextModel(r) =>
            /\ req[r].pc = "done"
            /\ req[r].status = 400
            /\ req[r].log = <<>>

\* a generate request with images for a text-only model has been answered
C2_Witness ==
    \E r \in Req :
        /\ ImagesForTextModel(r)
        /\ req[r].kind = "generate"
        /\ req[r].pc = "done"

(* ---------------------------------------------------------------------- *)
(* C3                                                                      *)
(* ---------------------------------------------------------------------- *)

\* the endpoints that take a model
ModelEndpoints ==
    {"preload", "switch", "chat", "generate", "resume", "progressive"}

SwitchFoundOnlyTarget(r) ==
    /\ req[r].kind = "switch" /\ req[r].pc = "done"
    /\ req[r].psOk /\ req[r].loaded = <<req[r].model>>

SwitchFoundTwoOthers(r) ==
    /\ req[r].kind = "switch" /\ req[r].pc = "done"
    /\ req[r].psOk /\ Len(req[r].loaded) = 2
    /\ Cardinality(Others(req[r].loaded, req[r].model)) = 2

\* C5: a switch to X that finds {Y, Z} resident makes one evict call for Y,
\* one evict call for Z and then one load call for X, whatever the two evict
\* calls answer.
C5_TwoEvictionsThenOneLoad ==
    \A r \in DOMAIN req :
        SwitchFoundTwoOthers(r) =>
            /\ Len(req[r].log) = 4
            /\ req[r].log[1] = Call("ps", NoModel, TRUE)
            /\ req[r].log[2].op = "evict"
            /\ req[r].log[2].model = req[r].loaded[1]
            /\ req[r].log[3].op = "evict"
            /\ req[r].log[3].model = req[r].loaded[2]
            /\ req[r].log[4].op = "load"
            /\ req[r].log[4].model = req[r].model

\* a switch whose two evict calls both failed and whose load call was made
\* and succeeded
C5_Witness ==
    \E r \in Req :
        /\ SwitchFoundTwoOthers(r)
        /\ ~req[r].log[2].ok /\ ~req[r].log[3].ok
        /\ req[r].log[4].ok

(* ---------------------------------------------------------------------- *)
(* C6                                                                      *)
(* ---------------------------------------------------------------------- *)

\* request r made a load call that answered ok
LoadAnswered(r, ok) == \E k \in CallsOf(r, "load") : req[r].log[k].ok = ok

\* C6: a switch or preload whose load call failed (or timed out) is answered
\* with an error, never with success; a switch whose load call succeeded is
\* answered with success, whatever its evict calls answered.
C6_LoadFailureFatalEvictFailureNot ==
    \A r \in DOMAIN req :
        req[r].pc = "done" =>
            /\ req[r].kind \in {"switch", "preload"} /\ LoadAnswered(r, FALSE)
               => req[r].status = 500
            /\ req[r].kind = "switch" /\ LoadAnswered(r, TRUE)
               => req[r].status = 200

\* a switch with a failed evict call that went on to its load call, which
\* failed and was answered 500
C6_Witness ==
    \E r \in Req :
        /\ req[r].kind = "switch" /\ req[r].pc = "done"
        /\ FailedEvictions(r) # {}
        /\ LoadAnswered(r, FALSE)
        /\ req[r].status = 500

(* ---------------------------------------------------------------------- *)
(* C7                                                                      *)
(* ---------------------------------------------------------------------- *)

\* C7: the unloadedCount of a successful switch to X is the number of evict
\* calls that succeeded; no evict call is made for X, and the count does not
\* exceed the number of other models the residency query reported.
C7_UnloadedCountIsSuccessfulEvictions ==
    \A r \in DOMAIN req :
        SwitchSucceeded(r) =>
            /\ req[r].unloadedCount =
                   Cardinality({k \in CallsOf(r, "evict") : req[r].log[k].ok})
            /\ req[r].unloadedCount = Cardinality(Evicted(r))
            /\ req[r].model \notin Evicted(r) \cup FailedEvictions(r)
            /\ Evicted(r) \subseteq Others(req[r].loaded, req[r].model)
            /\ req[r].unloadedCount
                   <= Cardinality(Others(req[r].loaded, req[r].model))

\* a successful switch with one evict call that succeeded and one that failed
C7_Witness ==
    \E r \in Req :
        /\ SwitchSucceeded(r)
        /\ req[r].unloadedCount = 1
        /\ FailedEvictions(r) # {}

(* ---------------------------------------------------------------------- *)
(* C8                                                                      *)
(* ---------------------------------------------------------------------- *)

\* the calls of a preload request: none before its answer, and at its
\* answer one load call for its model
PreloadCalls(r) ==
    req[r].kind = "preload" /\ req[r].model \in DOMAIN registry =>
        /\ CallsOf(r, "ps") = {}
        /\ CallsOf(r, "evict") = {}
        /\ req[r].pc # "done" => req[r].log = <<>>
        /\ req[r].pc = "done" =>
               /\ Len(req[r].log) = 1
               /\ req[r].log[1].op = "load"
               /\ req[r].log[1].model = req[r].model

\* C8: a preload of a registered model makes exactly one load call for that
\* model, no evict call and no residency query, and no step of the request
\* removes a model from the resident set.
C8_PreloadOneLoadNothingEvicted ==
    /\ [](\A r \in DOMAIN req : PreloadCalls(r))
    /\ [][\A r \in DOMAIN req :
              req[r].kind = "preload" /\ req'[r] # req[r]
              => resident \subseteq resident']_vars

\* a preload has answered with success and another model is still resident
C8_Witness ==
    \E r \in Req :
        /\ req[r].kind = "preload" /\ req[r].pc = "done"
        /\ req[r].status = 200
        /\ resident \ {req[r].model} # {}

(* ---------------------------------------------------------------------- *)
(* C9                                                                      *)
(* ---------------------------------------------------------------------- *)

\* request r is an unload that has answered after its residency query
\* succeeded
UnloadAnswered(r) ==
    req[r].kind = "unload" /\ req[r].pc = "done" /\ req[r].psOk

\* C9: an unload makes one evict call for every model the residency query
\* reported, in order and past failures, and answers with the number of
\* evict calls that succeeded; with nothing resident it makes no evict call
\* and answers 0.
C9_UnloadEvictsEveryResidentModel ==
    \A r \in DOMAIN req :
        UnloadAnswered(r) =>
            /\ req[r].status = 200
            /\ Len(req[r].log) = 1 + Len(req[r].loaded)
            /\ \A k \in 1..Len(req[r].loaded) :
                   /\ req[r].log[k + 1].op = "evict"
                   /\ req[r].log[k + 1].model = req[r].loaded[k]
            /\ req[r].unloadedCount =
                   Cardinality({k \in CallsOf(r, "evict") : req[r].log[k].ok})
            /\ req[r].loaded = <<>> =>
                   CallsOf(r, "evict") = {} /\ req[r].unloadedCount = 0

\* an unload whose first evict call failed and whose second succeeded
C9_Witness ==
    \E r \in Req :
        /\ UnloadAnswered(r)
        /\ Len(req[r].loaded) >= 2
        /\ ~req[r].log[2].ok /\ req[r].log[3].ok
        /\ req[r].unloadedCount = 1

(* ---------------------------------------------------------------------- *)
(* C10                                                                     *)
(* ---------------------------------------------------------------------- *)

\* request r is a chat or generate request whose residency query failed
ResidencyQueryFailed(r) ==
    /\ req[r].kind \in {"chat", "generate"}
    /\ Len(req[r].log) >= 1
    /\ req[r].log[1] = Call("ps", NoModel, FALSE)

TaxonomyStatus ==
    ("ECONNREFUSED" :> 503) @@ ("HTTP404" :> 404) @@ ("ECONNABORTED" :> 408)
    @@ ("OTHER" :> 500)

\* the request made its chat/generate call and the call failed
EngineCallFailed(r) ==
    /\ Len(req[r].log) >= 1
    /\ req[r].log[Len(req[r].log)].op \in {"chat", "generate"}
    /\ ~req[r].log[Len(req[r].log)].ok

\* C11: a chat request whose chat call failed is answered 503 when the
\* connection was refused, 404 when the engine answered 404, 408 when the
\* call timed out and 500 otherwise; the failed call is the last step of the
\* request: it is answered (pc "done") with that one status.
C11_ChatFailureMappedToTaxonomy ==
    \A r \in DOMAIN req :
        req[r].kind = "chat" /\ EngineCallFailed(r) =>
            /\ req[r].pc = "done"
            /\ req[r].outcome \in DOMAIN TaxonomyStatus
            /\ req[r].status = TaxonomyStatus[req[r].outcome]

\* a chat request whose chat call the engine answered with 404
C11_Witness ==
    \E r \in Req :
        /\ req[r].kind = "chat" /\ EngineCallFailed(r)
        /\ req[r].outcome = "HTTP404" /\ req[r].status = 404

(* ---------------------------------------------------------------------- *)
(* C12                                                                     *)
(* ---------------------------------------------------------------------- *)

\* C12 as claimed: a generate request whose generate call failed is
\* answered 503 when the connection was refused, 404 when the engine
\* answered 404, 408 when the call timed out and 500 otherwise.
C12_GenerateFailureMappedToTaxonomy ==
    \A r \in DOMAIN req :
        req[r].kind = "generate" /\ EngineCallFailed(r) =>
            /\ req[r].outcome \in DOMAIN TaxonomyStatus
            /\ req[r].status = TaxonomyStatus[req[r].outcome]

(* ---------------------------------------------------------------------- *)
(* C13                                                                     *)
(* ---------------------------------------------------------------------- *)

\* the chat/generate calls a request has made
GenerationCalls(r) == CallsOf(r, "chat") \cup CallsOf(r, "generate")

\* C13: a chat, generate, resume or progressive request makes at most one
\* chat/generate call, whatever its outcome: the call is the last engine
\* call of the request, which is answered as soon as the call returns.
C13_AtMostOneGenerationCall ==
    \A r \in DOMAIN req :
        req[r].kind \in {"chat", "generate", "resume", "progressive"}
        => /\ Cardinality(GenerationCalls(r)) <= 1
           /\ GenerationCalls(r) # {} =>
                  /\ req[r].pc \in {"done", "stream"}
                  /\ req[r].log[Len(req[r].log)].op \in {"chat", "generate"}

\* a chat request whose only chat call timed out and that was answered 408
C13_Witness ==
    \E r \in Req :
        /\ req[r].kind = "chat" /\ req[r].pc = "done"
        /\ req[r].outcome = "ECONNABORTED"
        /\ Cardinality(GenerationCalls(r)) = 1

(* ---------------------------------------------------------------------- *)
(* C14                                                                     *)
(* ---------------------------------------------------------------------- *)

\* C14 as claimed: every engine call of a chat or generate request (the
\* residency query, each evict call, the chat/generate call) carries the
\* timeout the selector derived for the request, and a call that times out
\* ends the request with 408.
C14_EveryCallCarriesSelectorTimeout ==
    \A r \in DOMAIN req :
        req[r].kind \in {"chat", "generate"} =>
            /\ \A k \in 1..Len(req[r].log) :
                   req[r].log[k].timeout = req[r].params.timeout
            /\ req[r].outcome = "ECONNABORTED" => req[r].status = 408

(* ---------------------------------------------------------------------- *)
(* C15                                                                     *)
(* ---------------------------------------------------------------------- *)

\* simple < moderate < complex < very_complex
Rank(complexity) ==
    CASE complexity = "simple" -> 0
      [] complexity = "moderate" -> 1
      [] complexity = "complex" -> 2
      [] complexity = "very_complex" -> 3

\* what the analyzer returns for one-message histories of every content
\* length and every number of matching indicators
ComparedResults ==
    {analyzeQueryComplexity(History(1, Msg("user", l, 1..k, 0, 0))) :
        l \in ContentLengths, k \in 0..NumIndicators}

\* the analyzer has returned
Analyzed == analysis.pc \in {"analyzed", "selected"}

\* C15: the score the analyzer returns is never negative, and against the
\* result of any other history a higher score never has a lower class (nor
\* a lower score a higher class).
C15_ClassNonDecreasingInScore ==
    Analyzed =>
        /\ analysis.result.score >= 0
        /\ \A other \in ComparedResults :
               /\ other.score >= analysis.result.score
                  => Rank(other.complexity) >= Rank(analysis.result.complexity)
               /\ other.score <= analysis.result.score
                  => Rank(other.complexity) <= Rank(analysis.result.complexity)

\* a history classed complex, with histories of higher score and higher
\* class and of lower score and lower class to compare it with
C15_Witness ==
    /\ Analyzed
    /\ analysis.result.complexity = "complex"
    /\ \E other \in ComparedResults :
           /\ other.score > analysis.result.score
           /\ other.complexity = "very_complex"
    /\ \E other \in ComparedResults :
           /\ other.score < analysis.result.score
           /\ other.complexity = "moderate"

(* ---------------------------------------------------------------------- *)
(* C16                                                                     *)
(* ---------------------------------------------------------------------- *)

\* the last message of the history under analysis
AnalyzedLast == analysis.messages[Len(analysis.messages)]

\* L + 3*P + I + Q + H as the claim spells it
ClaimedScore ==
    LET n == Len(analysis.messages)
        L == IF AnalyzedLast.length > 2000 THEN 7
             ELSE IF AnalyzedLast.length > 1000 THEN 4
             ELSE IF AnalyzedLast.length > 500 THEN 2
             ELSE 0
        P == Cardinality(AnalyzedLast.matches)
        I == IF AnalyzedLast.images >= 1 THEN 2 ELSE 0
        Q == IF AnalyzedLast.questionMarks > 1 THEN 2 ELSE 0
        H == IF n > 10 THEN 3 ELSE IF n > 5 THEN 1 ELSE 0
    IN L + 3 * P + I + Q + H

\* C16: for a non-empty history the score is L + 3*P + I + Q + H, and the
\* class is very_complex iff score >= 8, complex iff 5 <= score < 8,
\* moderate iff 2 <= score < 5, simple otherwise.
C16_ScoreAndClassFormula ==
    Analyzed =>
        LET score == analysis.result.score
            class == analysis.result.complexity
        IN /\ score = ClaimedScore
           /\ class = "very_complex" <=> score >= 8
           /\ class = "complex" <=> (5 <= score /\ score < 8)
           /\ class = "moderate" <=> (2 <= score /\ score < 5)
           /\ class = "simple" <=> score < 2

\* the 2200-character message with no other bonus: 7, complex
C16_Witness ==
    /\ Analyzed
    /\ Len(analysis.messages) = 1
    /\ AnalyzedLast = Msg("user", 2200, {}, 0, 0)
    /\ analysis.result = [complexity |-> "complex", score |-> 7]

(* ---------------------------------------------------------------------- *)
(* C17                                                                     *)
(* ---------------------------------------------------------------------- *)

\* the table of the claim: token budget, context window, timeout in
\* minutes, temperature in tenths
TableEntry(complexity, hasImages) ==
    CASE complexity = "simple" ->
             [budget |-> 500, ctx |-> 4096, minutes |-> 2, temperature |-> 7]
      [] complexity = "moderate" ->
             [budget |-> IF hasImages THEN 1000 ELSE 1200, ctx |-> 4096,
              minutes |-> 3, temperature |-> 7]
      [] complexity = "complex" ->
             [budget |-> IF hasImages THEN 2000 ELSE 2500, ctx |-> 6144,
              minutes |-> 5, temperature |-> 7]
      [] complexity = "very_complex" ->
             [budget |-> IF hasImages THEN 3000 ELSE 4000, ctx |-> 8192,
              minutes |-> 10, temperature |-> 8]

\* C17: for every class and image flag the selector returns the entry of
\* the table, with top_k 40, top_p 0.9, repeat penalty 1.1 and repeat window
\* 64 for every class.
C17_SelectorReturnsTableEntry ==
    analysis.pc = "selected" =>
        LET entry == TableEntry(analysis.result.complexity, analysis.hasImages)
        IN /\ analysis.params.num_predict = entry.budget
           /\ analysis.params.num_ctx = entry.ctx
           /\ analysis.params.timeout = entry.minutes * 60 * 1000
           /\ analysis.params.temperature = entry.temperature
           /\ analysis.params.top_k = 40
           /\ analysis.params.top_p = 9
           /\ analysis.params.repeat_penalty = 11
           /\ analysis.params.repeat_last_n = 64

\* the selector has answered a very_complex request with images
C17_Witness ==
    /\ analysis.pc = "selected"
    /\ analysis.result.complexity = "very_complex"
    /\ analysis.hasImages
    /\ analysis.params.num_predict = 3000
    /\ analysis.params.temperature = 8

(* ---------------------------------------------------------------------- *)
(* C18                                                                     *)
(* ---------------------------------------------------------------------- *)

\* the CHUNK lines the response accepted, in the order they were written
Chunks == SelectSeq(session.out, LAMBDA line : line.kind = "CHUNK")

\* the texts of the lines of a sequence, one after the other
RECURSIVE Concat(_, _)
Concat(lines, k) ==
    IF k > Len(lines) THEN <<>> ELSE lines[k].text \o Concat(lines, k + 1)

\* a session with chunk_size >= 1 whose engine lines were all parseable (as
\* the engine wrote them and as the data events delivered them) and ended
\* with the one done line, and whose caller stayed connected
WellFormedAndDone ==
    /\ session.pc = "open" /\ session.chunk_size >= 1
    /\ ~session.malformed /\ ~session.split /\ ~session.closed
    /\ session.dones = 1 /\ ~session.afterDone

\* C18: in a session with chunk_size C >= 1 whose lines were all parseable
\* and ended with a done line, with N characters of content in all, the
\* response holds ceil(N / C) chunks, each of C characters but the last,
\* which has N mod C when C does not divide N, and the chunk texts put end
\* to end are the engine's content, however the content was split into
\* lines and data events.
C18_ChunksRoundTrip ==
    WellFormedAndDone =>
        LET C == session.chunk_size
            N == Len(session.sent)
        IN /\ Len(Chunks) = (N + C - 1) \div C
           /\ \A k \in 1..Len(Chunks) :
                  Len(Chunks[k].text) = IF k * C <= N THEN C ELSE N % C
           /\ Concat(Chunks, 1) = session.sent

\* three characters sent in two data events came out as chunks of 2 and 1
C18_Witness ==
    /\ WellFormedAndDone
    /\ session.chunk_size = 2 /\ Len(session.sent) = 3
    /\ session.nEvents = 2
    /\ Len(Chunks) = 2 /\ Len(Chunks[2].text) = 1

(* ---------------------------------------------------------------------- *)
(* C19                                                                     *)
(* ---------------------------------------------------------------------- *)

\* C19 as claimed: once the chunk loop has written a chunk, the buffer it
\* leaves is shorter than chunk_size, also when one line made the buffer
\* two or more times chunk_size long.
C19_BufferShorterThanChunkSize ==
    session.pc # "none" /\ session.chunkCount > 0
    => Len(session.buffer) < session.chunk_size

(* ---------------------------------------------------------------------- *)
(* C20                                                                     *)
(* ---------------------------------------------------------------------- *)

\* C20: the chunks of a response carry the indices 0, 1, 2, ... in the
\* order they were written, the last chunk written on the done line
\* included: none repeated, none skipped.
C20_ChunkIndicesCountFromZero ==
    session.pc # "none" =>
        \A k \in 1..Len(Chunks) : Chunks[k].index = k - 1

\* one chunk written by the loop, then the rest of the buffer written as a
\* second on the done line
C20_Witness ==
    /\ session.pc = "open" /\ session.ended
    /\ Len(Chunks) = 2
    /\ Len(Chunks[2].text) < session.chunk_size
    /\ session.out[Len(session.out)].kind = "DONE"

(* ---------------------------------------------------------------------- *)
(* C21                                                                     *)
(* ---------------------------------------------------------------------- *)

\* the positions of the lines of kind k in what the response accepted
OutLines(k) == {p \in 1..Len(session.out) : session.out[p].kind = k}

\* C21 as claimed: once the engine has sent its done line, in data events
\* that end with a line, to a session whose caller is connected, the
\* response holds DONE exactly once, as its last
\* line and so after every chunk, and a buffer that was not empty when the
\* done line came is the text of the last chunk (the buffer is read before
\* any later line changes it).
C21_DoneFlushesAndEndsOnce ==
    /\ session.pc # "none" /\ session.dones > 0
    /\ ~session.closed /\ ~session.split
    =>
        /\ Cardinality(OutLines("DONE")) = 1
        /\ session.out[Len(session.out)].kind = "DONE"
        /\ Len(session.buffer) > 0 /\ ~session.afterDone =>
               /\ Len(Chunks) > 0
               /\ Chunks[Len(Chunks)].text = session.buffer

(* ---------------------------------------------------------------------- *)
(* C22                                                                     *)
(* ---------------------------------------------------------------------- *)

\* a session with chunk_size >= 1 whose caller stayed connected and whose
\* engine lines, parseable or not but none of them cut by an event
\* boundary, ended with the one done line
EndedWithDoneLine ==
    /\ session.pc = "open" /\ session.chunk_size >= 1
    /\ ~session.closed /\ ~session.split
    /\ session.dones = 1 /\ ~session.afterDone

\* C22 as claimed: a line that is not parseable does not end the response,
\* and the content and the done signal of every parseable line still get
\* through: when the lines ended with a done line, the response ended with
\* DONE and its chunks carry all the content the engine sent.
C22_MalformedLineDropsNothing ==
    /\ session.pc = "open" /\ session.ended
       => session.dones > 0 \/ session.engine = "failed"
    /\ EndedWithDoneLine =>
           /\ session.ended
           /\ session.out[Len(session.out)].kind = "DONE"
           /\ Concat(Chunks, 1) = session.sent

(* ---------------------------------------------------------------------- *)
(* C23                                                                     *)
(* ---------------------------------------------------------------------- *)

\* C23: after an error of the engine's stream the response is ended; it
\* holds at most one ERROR line and nothing after it; when the error came
\* before any DONE and the caller was connected, the ERROR line is the last
\* line of the response.
C23_StreamErrorWritesErrorAndEnds ==
    /\ session.pc # "none" =>
           /\ Cardinality(OutLines("ERROR")) <= 1
           /\ \A p \in OutLines("ERROR") : p = Len(session.out)
    /\ session.pc # "none" /\ session.engine = "failed" =>
           /\ session.ended
           /\ OutLines("DONE") = {} /\ ~session.closed =>
                  /\ Len(session.out) > 0
                  /\ session.out[Len(session.out)].kind = "ERROR"

\* the stream failed after two chunks: they are followed by the ERROR line
C23_Witness ==
    /\ session.pc = "open" /\ session.engine = "failed" /\ session.ended
    /\ Len(Chunks) = 2 /\ Len(session.out) = 3
    /\ session.out[3].kind = "ERROR"

(* ---------------------------------------------------------------------- *)
(* C26                                                                     *)
(* ---------------------------------------------------------------------- *)

\* C26 as claimed: once the caller has disconnected, no chunk, DONE or
\* ERROR line is written to the response any more.
C26_NoWriteAfterCallerClosed ==
    session.pc # "none" /\ session.closed => session.late = 0

(* ---------------------------------------------------------------------- *)
(* C24                                                                     *)
(* ---------------------------------------------------------------------- *)

\* C24: a resume request that reaches its chat call makes it with the
\* complex profile, a token budget of 2500, a context window of 6144 and a
\* timeout of 5 minutes, whatever its history.
C24_ResumeUsesComplexProfile ==
    \A r \in DOMAIN req :
        /\ req[r].kind = "resume"
        /\ req[r].pc = "gen" \/ GenerationCalls(r) # {}
        => /\ req[r].params.num_predict = 2500
           /\ req[r].params.num_ctx = 6144
           /\ req[r].params.timeout = 5 * 60 * 1000
           /\ \A k \in GenerationCalls(r) :
                  req[r].log[k].timeout = 5 * 60 * 1000

\* a resume request whose history carries images, which the analyzer puts
\* in the class moderate, has made its chat call
C24_Witness ==
    \E r \in Req :
        /\ req[r].kind = "resume" /\ req[r].hist = "images"
        /\ analyzeQueryComplexity(HistoryOf("images")).complexity = "moderate"
        /\ req[r].pc = "done" /\ GenerationCalls(r) # {}

(* ---------------------------------------------------------------------- *)
(* C28                                                                     *)
(* ---------------------------------------------------------------------- *)

\* C28 as claimed: a resume or progressive request that carries images for
\* a registered model whose supportsImages is false is answered 400 and
\* makes no engine call.
C28_ResumeProgressiveRejectImages ==
    \A r \in DOMAIN req :
        /\ req[r].kind \in {"resume", "progressive"}
        /\ req[r].hist = "images"
        /\ req[r].model \in DOMAIN registry
        /\ ~registry[req[r].model].supportsImages
        => /\ req[r].pc = "done"
           /\ req[r].status = 400
           /\ req[r].log = <<>>

(* ---------------------------------------------------------------------- *)
(* C30                                                                     *)
(* ---------------------------------------------------------------------- *)

\* C30 as claimed: a chat or generate request whose residency query did not
\* report the target as the only resident model makes, before its
\* chat/generate call and after its evict calls, exactly one load call,
\* for its target and with the timeout of 60 s.
C30_WarmUpLoadBeforeGeneration ==
    \A r \in DOMAIN req :
        /\ req[r].kind \in {"chat", "generate"}
        /\ GenerationCalls(r) # {}
        /\ req[r].psOk /\ req[r].loaded # <<req[r].model>>
        => /\ Cardinality(CallsOf(r, "load")) = 1
           /\ \A k \in CallsOf(r, "load") :
                  /\ req[r].log[k].model = req[r].model
                  /\ req[r].log[k].timeout = LoadTimeout
                  /\ \A e \in CallsOf(r, "evict") : e < k
                  /\ \A g \in GenerationCalls(r) : k < g

(* ---------------------------------------------------------------------- *)
(* C25                                                                     *)
(* ---------------------------------------------------------------------- *)

\* C25 as claimed: the messages a resume sends are the whole history it was
\* given, unchanged and in order, followed by one more message, of role
\* user, that carries the continuation prompt.
C25_ContinuationAppendedAsUserTurn ==
    analysis.pc = "continued" =>
        /\ Len(analysis.sent) = Len(analysis.messages) + 1
        /\ \A k \in 1..Len(analysis.messages) :
               k <= Len(analysis.sent) /\ analysis.sent[k] = analysis.messages[k]
        /\ analysis.sent[Len(analysis.sent)].role = "user"

(* ---------------------------------------------------------------------- *)
(* C27                                                                     *)
(* ---------------------------------------------------------------------- *)

\* the requests that have arrived are chat/generate requests for one model
SameTarget(X) ==
    \A r \in DOMAIN req :
        req[r].pc # "idle" =>
            req[r].kind \in {"chat", "generate"} /\ req[r].model = X

\* the models request r has sent an evict call for
EvictedModels(r) == {req[r].log[k].model : k \in CallsOf(r, "evict")}

\* C27 as claimed: while all requests target the same model X, no request
\* ever makes an evict call for X, and no request makes an evict call at
\* all once X is the only resident model.
C27_SameTargetNeverEvicts ==
    [][\A X \in Models :
          SameTarget(X)' =>
              /\ \A r \in DOMAIN req : X \notin EvictedModels(r)'
              /\ resident = {X} =>
                     \A r \in DOMAIN req :
                         CallsOf(r, "evict")' = CallsOf(r, "evict")]_vars

\* C27: while all requests target the same model X, no request ever makes
\* an evict call for X, and a request whose residency query listed X alone
\* makes no evict call; a request whose query listed other models evicts
\* exactly those, whatever is resident by the time it does.
C27_SameTargetNeverEvictsTarget ==
    \A X \in Models :
        SameTarget(X) =>
            \A r \in DOMAIN req :
                /\ X \notin EvictedModels(r)
                /\ req[r].psOk /\ req[r].loaded = <<X>>
                   => CallsOf(r, "evict") = {}
                /\ req[r].psOk /\ req[r].pc \in {"gen", "done"}
                   => EvictedModels(r) =
                          {req[r].loaded[k] : k \in 1..Len(req[r].loaded)}
                              \ {X}

\* two requests for the same model are done: the query of the first listed
\* the model alone and it evicted nothing, the query of the second listed
\* another model too, which it evicted
C27_Witness ==
    \E X \in Models, a, b \in DOMAIN req :
        /\ SameTarget(X) /\ a # b
        /\ req[a].pc = "done" /\ req[b].pc = "done"
        /\ req[a].loaded = <<X>> /\ CallsOf(a, "evict") = {}
        /\ X \notin EvictedModels(b) /\ EvictedModels(b) # {}
        /\ resident = {X}

(* ---------------------------------------------------------------------- *)
(* C29                                                                     *)
(* ---------------------------------------------------------------------- *)

\* chat request a has finished its residency step and has its chat call
\* ahead
ReadyToCall(a) == req[a].kind = "chat" /\ req[a].pc = "gen"

\* chat request b is about to unload the model that request a targets
AboutToEvictTargetOf(b, a) ==
    /\ req[b].kind = "chat" /\ req[b].pc = "evict"
    /\ req[b].loaded[req[b].i] = req[a].model

\* C29: nothing serializes the residency step of one chat request with the
\* chat call of another: a request that is about to unload the target of a
\* request that has finished its residency step can do so, and a request
\* that has finished its residency step makes its chat call whether or not
\* its target is still resident.
C29_ResidencyStepNotExclusive ==
    \A a, b \in DOMAIN req :
        /\ ReadyToCall(a) /\ AboutToEvictTargetOf(b, a)
           => ENABLED ChatEvict(b, TRUE)
        /\ ReadyToCall(a) => ENABLED ChatCall(a, "ok")

\* request a queried while its target was resident, evicted the target of
\* request b and has its chat call ahead; request b has since evicted the
\* target of a, which is resident no more
C29_Witness ==
    \E a, b \in DOMAIN req :
        /\ a # b /\ req[a].model # req[b].model
        /\ ReadyToCall(a) /\ req[a].psOk
        /\ \E k \in 1..Len(req[a].loaded) : req[a].loaded[k] = req[a].model
        /\ req[b].kind = "chat"
        /\ req[a].model \in EvictedModels(b)
        /\ req[b].model \in EvictedModels(a)
        /\ req[a].model \notin resident

(* ---------------------------------------------------------------------- *)
(* C31                                                                     *)
(* ---------------------------------------------------------------------- *)

\* the models other than its target that the residency query of request r
\* listed
OthersListed(r) ==
    {req[r].loaded[k] : k \in 1..Len(req[r].loaded)} \ {req[r].model}

\* C31: a chat or generate request whose residency query succeeded has, by
\* the time its chat/generate call can start, made exactly one evict call
\* for every listed model other than its target, each answered (with or
\* without success) before the chat/generate call, and none for its target.
C31_EvictionsPrecedeGenerationCall ==
    \A r \in DOMAIN req :
        /\ req[r].kind \in {"chat", "generate"}
        /\ req[r].psOk
        /\ req[r].pc = "gen" \/ GenerationCalls(r) # {}
        => /\ \A y \in OthersListed(r) :
                  /\ Cardinality({k \in CallsOf(r, "evict") :
                                     req[r].log[k].model = y}) = 1
                  /\ \A k \in CallsOf(r, "evict"), g \in GenerationCalls(r) :
                         k < g
           /\ \A k \in CallsOf(r, "evict") :
                  req[r].log[k].model \in OthersListed(r)

\* a chat request whose query listed its target and two other models has
\* made its chat call after two evict calls, one of which failed
C31_Witness ==
    \E r \in Req :
        /\ req[r].kind = "chat" /\ req[r].psOk /\ req[r].pc = "done"
        /\ req[r].model \in {req[r].loaded[k] : k \in 1..Len(req[r].loaded)}
        /\ Cardinality(OthersListed(r)) = 2
        /\ GenerationCalls(r) = {4}
        /\ \E k \in CallsOf(r, "evict") : ~req[r].log[k].ok
        /\ \E k \in CallsOf(r, "evict") : req[r].log[k].ok

(* ---------------------------------------------------------------------- *)
(* C32                                                                     *)
(* ---------------------------------------------------------------------- *)

\* C32 as claimed: a resume or progressive request makes, before its chat
\* call, a residency query and, when the query succeeded, one evict call
\* for every listed model other than its target.
C32_ResumeProgressiveRunResidencyStep ==
    \A r \in DOMAIN req :
        /\ req[r].kind \in {"resume", "progressive"}
        /\ GenerationCalls(r) # {}
        => /\ \E k \in CallsOf(r, "ps") :
                  \A g \in GenerationCalls(r) : k < g
           /\ req[r].psOk =>
                  \A y \in OthersListed(r) :
                      \E k \in CallsOf(r, "evict") :
                          /\ req[r].log[k].model = y
                          /\ \A g \in GenerationCalls(r) : k < g

(* ---------------------------------------------------------------------- *)
(* C33                                                                     *)
(* ---------------------------------------------------------------------- *)

\* earlier turns as unlike the short text turns of History as a message
\* can be: long, matching every indicator, with question marks and images
EarlierTurns ==
    {Msg("user", 2200, 1..NumIndicators, 2, 1),
     Msg("assistant", 2200, 1..NumIndicators, 2, 1),
     Msg("system", 0, {}, 0, 0)}

\* the histories of the length and with the last message of messages whose
\* earlier turns are all replaced by another turn, or whose first or last
\* earlier turn is replaced by the heaviest one
Siblings(messages) ==
    LET n == Len(messages)
    IN {[k \in 1..n |-> IF k = n THEN messages[n] ELSE e] :
            e \in EarlierTurns}
       \cup {[k \in 1..n |->
                 IF k = j THEN Msg("user", 2200, 1..NumIndicators, 2, 1)
                 ELSE messages[k]] : j \in {1, n - 1} \cap 1..(n - 1)}

\* C33: two histories of the same length with the same last message get
\* the same score and class from the analyzer, whatever the content, the
\* roles and the images of their earlier messages.
C33_ResultDependsOnLastMessageAndLength ==
    Analyzed =>
        \A other \in Siblings(analysis.messages) :
            /\ Len(other) = Len(analysis.messages)
            /\ other[Len(other)] = AnalyzedLast
            /\ analyzeQueryComplexity(other) = analysis.result

\* a short three-message history without images is classed simple, and so
\* is its sibling whose first message is long, matches every indicator and
\* carries an image
C33_Witness ==
    /\ Analyzed
    /\ Len(analysis.messages) = 3
    /\ AnalyzedLast = Msg("user", 39, {}, 0, 0)
    /\ analysis.result = [complexity |-> "simple", score |-> 0]
    /\ \E other \in Siblings(analysis.messages) :
           /\ other # analysis.messages
           /\ other[1] = Msg("user", 2200, 1..NumIndicators, 2, 1)
           /\ analyzeQueryComplexity(other) = analysis.result

(* ---------------------------------------------------------------------- *)
(* C34                                                                     *)
(* ---------------------------------------------------------------------- *)

\* C34 as claimed: the chunk loop ends after every engine line, whatever
\* chunk_size the caller supplied, zero and negative values included.
C34_ChunkLoopTerminates == session.pc # "spinning"

(* ---------------------------------------------------------------------- *)
(* C35                                                                     *)
(* ---------------------------------------------------------------------- *)

\* the engine's stream is over, by its end or by an error: no handler of
\* the session runs after that
StreamFinished == session.pc = "open" /\ session.engine # "flowing"

\* C35 as claimed: once the engine's stream is over the response of the
\* session has been ended, after DONE or after an ERROR line, also when the
\* stream closed without a parseable done line or when the done line came
\* in one data event with a malformed line.
C35_ResponseEndedWhenStreamFinished ==
    StreamFinished /\ ~session.closed =>
        /\ session.ended
        /\ session.out # <<>>
        /\ session.out[Len(session.out)].kind \in {"DONE", "ERROR"}

(* ---------------------------------------------------------------------- *)
(* C36                                                                     *)
(* ---------------------------------------------------------------------- *)

\* C36 as claimed: once the response of a session was ended, nothing more
\* is written to it and it is not ended again, whatever the engine sends
\* after its done line, and the response holds one terminal line, DONE or
\* ERROR.
C36_NothingWrittenAfterEnd ==
    session.pc # "none" /\ ~session.closed =>
        /\ session.late = 0
        /\ session.ended =>
               Cardinality(OutLines("DONE") \cup OutLines("ERROR")) = 1

(* ---------------------------------------------------------------------- *)
(* C37                                                                     *)
(* ---------------------------------------------------------------------- *)

\* C37: a chat, resume or progressive request for a registered model whose
\* history is empty is answered with an error status as soon as it
\* arrives, without any engine call.
C37_EmptyHistoryAnsweredWithoutEngineCall ==
    \A r \in DOMAIN req :
        /\ req[r].kind \in {"chat", "resume", "progressive"}
        /\ req[r].model \in DOMAIN registry
        /\ req[r].hist = "empty"
        => /\ req[r].pc = "done"
           /\ req[r].status >= 400
           /\ req[r].log = <<>>

\* a resume request with an empty history for a registered model was
\* answered 500 while a model was resident
C37_Witness ==
    \E r \in Req :
        /\ req[r].kind = "resume" /\ req[r].hist = "empty"
        /\ req[r].model \in DOMAIN registry
        /\ req[r].pc = "done" /\ req[r].status = 500
        /\ resident # {}

(* ---------------------------------------------------------------------- *)
(* C38                                                                     *)
(* ---------------------------------------------------------------------- *)

\* C38 as claimed: every engine call a chat, generate, switch or unload
\* request waits on (residency query, evict call, load call, chat/generate
\* call) is bounded by a timeout, so that the request is answered even if
\* the engine stops answering.
C38_EveryEngineCallBounded ==
    \A r \in DOMAIN req :
        req[r].kind \in {"chat", "generate", "switch", "unload"} =>
            \A k \in 1..Len(req[r].log) : req[r].log[k].timeout > NoTimeout

(* ---------------------------------------------------------------------- *)
(* C39                                                                     *)
(* ---------------------------------------------------------------------- *)

\* what the response holds when the content the engine sent arrives in one
\* data event that ends with the line, the done line
LineAlignedOut ==
    OnLines(OpenedSession(session.chunk_size),
            <<JsonLine(session.sent, TRUE)>>, 1).out

\* C39 as claimed: the CHUNK lines and the DONE line of a session are those
\* of the engine's lines, wherever the transport put the boundaries of the
\* data events, in the middle of a JSON line included: when the engine has
\* sent parseable lines that end with the one done line, the response holds
\* what it holds when every event ends with a line.
C39_OutputIndependentOfEventBoundaries ==
    /\ session.pc = "open" /\ session.chunk_size >= 1
    /\ ~session.malformed /\ ~session.closed /\ ~session.cut
    /\ session.dones = 1 /\ ~session.afterDone
    => /\ session.ended
       /\ session.out = LineAlignedOut

====
